---- MODULE Spec2Model ----
(***************************************************************************)
(* Model of main.py (OrionX Assistant): the JSON history store with its    *)
(* atomic write, the model selection done at import time, and the message  *)
(* handlers run by the single-threaded asyncio event loop.                 *)
(***************************************************************************)
EXTENDS Integers, Sequences, FiniteSets, TLC

VARIABLES
    fs,          \* the files of the working directory: path -> [exists, text]
    wpc,         \* store scenario: position of the save/load sequence
    wmode,       \* store scenario: "given" (save a given mapping) or "reload" (save what was loaded)
    wdata,       \* store scenario: the mapping handed to save_history
    wstep,       \* store scenario: steps of atomic_write_json already executed
    wfailed,     \* store scenario: atomic_write_json raised (caught by save_history)
    wfirst,      \* store scenario: result of the load_history() before the save
    loaded,      \* store scenario: result of the load_history() after the save
    fs0,         \* store scenario: the target file before save_history was called
    registry,    \* the descriptors genai.list_models() yields when it works
    listRaises,  \* genai.list_models() raises
    FALLBACK_MODEL,  \* os.getenv("FALLBACK_MODEL")
    startup,     \* position of the module's import: "list", "choose", "decide", "serving", "fatal"
    models,      \* detect_model: models
    selected,    \* detect_model: selected
    SELECTED_MODEL,  \* the module global, NoneStr until detect_model returns
    tasks,       \* the handler coroutines the dispatcher has started, in order of arrival
    interleaved  \* some handler loaded the store while another one had loaded and not yet
                 \* saved, or while one that arrived before it had not loaded yet

storeVars == <<wpc, wmode, wdata, wstep, wfailed, wfirst, loaded, fs0>>
selectVars == <<registry, listRaises, FALLBACK_MODEL, startup, models, selected, SELECTED_MODEL>>
botVars == <<tasks, interleaved>>
vars == <<fs, storeVars, selectVars, botVars>>

(***************************************************************************)
(* Program constants                                                       *)
(***************************************************************************)
HISTORY_FILE == "memory.json"
HISTORY_LIMIT == 10
MY_ID == "6055791149"

\* Python's None
None == "None"

(***************************************************************************)
(* Conversation turns: {"role": ..., "parts": [texts]}. A text is named by *)
(* the number of the message it belongs to                                 *)
(***************************************************************************)
Turn(role, parts) == [role |-> role, parts |-> parts]
UserTurn(n) == Turn("user", <<n>>)
ModelTurn(n) == Turn("model", <<n>>)

\* a stored history of n turns, user and model turns alternating, numbered
\* in chronological order
OldHistory(n) == [i \in 1..n |-> IF i % 2 = 1 THEN UserTurn(i) ELSE ModelTurn(i)]

(***************************************************************************)
(* dict: an insertion-ordered sequence of <<key, value>> pairs with        *)
(* distinct keys; equality of dicts ignores the order                      *)
(***************************************************************************)
EmptyDict == <<>>

DictKeys(d) == {d[i][1] : i \in 1..Len(d)}

DictHas(d, k) == k \in DictKeys(d)

DictIndex(d, k) == CHOOSE i \in 1..Len(d) : d[i][1] = k

\* d.get(k, default)
DictGet(d, k, default) == IF DictHas(d, k) THEN d[DictIndex(d, k)][2] ELSE default

\* d[k] = v : an existing key keeps its position, a new key goes last
DictSet(d, k, v) ==
    IF DictHas(d, k)
    THEN [i \in 1..Len(d) |-> IF d[i][1] = k THEN <<k, v>> ELSE d[i]]
    ELSE Append(d, <<k, v>>)

\* faulty variant: every entry is removed
DictPop_Everything(d, k) == <<>>
\* d.pop(k, None)
DictPop(d, k) == SelectSeq(d, LAMBDA e : e[1] # k)

\* d1 == d2
DictEq(d1, d2) ==
    /\ DictKeys(d1) = DictKeys(d2)
    /\ \A k \in DictKeys(d1) : DictGet(d1, k, None) = DictGet(d2, k, None)

(***************************************************************************)
(* JSON text: a sequence of tokens. A document is "{" pair* "}"            *)
(***************************************************************************)
Tok(t, k, v) == [t |-> t, k |-> k, v |-> v]
TokOpen == Tok("{", "", <<>>)
TokClose == Tok("}", "", <<>>)
TokJunk == Tok("#", "", <<>>)

RECURSIVE DumpPairs(_)
DumpPairs(d) ==
    IF d = <<>> THEN <<>>
    ELSE <<Tok("pair", d[1][1], d[1][2])>> \o DumpPairs(Tail(d))

\* json.dump(data, tf, ...): the text written for a dict
json_dump(data) == <<TokOpen>> \o DumpPairs(data) \o <<TokClose>>

WellFormed(text) ==
    /\ Len(text) >= 2
    /\ text[1] = TokOpen
    /\ text[Len(text)] = TokClose
    /\ \A i \in 2..(Len(text) - 1) : text[i].t = "pair"

\* json.load(f): the value of a well-formed text, an exception otherwise
json_load(text) ==
    IF WellFormed(text)
    THEN [raised |-> FALSE,
          val |-> [i \in 1..(Len(text) - 2) |-> <<text[i + 1].k, text[i + 1].v>>]]
    ELSE [raised |-> TRUE, val |-> EmptyDict]

(***************************************************************************)
(* Files                                                                   *)
(***************************************************************************)
TmpName == "tmpfile"
Paths == {HISTORY_FILE, TmpName}

NoFile == [exists |-> FALSE, text |-> <<>>]
File(text) == [exists |-> TRUE, text |-> text]

\* faulty variant: the document is written straight to the target
NamedTemporaryFile_InPlace(path) == path
\* NamedTemporaryFile("w", delete=False, dir=dirpath): a fresh name in the
\* directory of the target, never the target itself
NamedTemporaryFile(path) == TmpName

\* opening the temporary file for writing creates it empty
OpenTemp(f, tmpname) == [f EXCEPT ![tmpname] = File(<<>>)]

\* one write of json.dump reaching the file
WriteTok(f, tmpname, tok) ==
    [f EXCEPT ![tmpname] = File(f[tmpname].text \o <<tok>>)]

\* faulty variant: the temporary file is never renamed
os_replace_Forgotten(f, src, dst) == f
\* os.replace(src, dst)
os_replace(f, src, dst) ==
    IF src = dst THEN f
    ELSE [f EXCEPT ![dst] = f[src], ![src] = NoFile]

\* number of steps of atomic_write_json(path, data): open, the writes, replace
WriteSteps(data) == Len(json_dump(data)) + 2

\* step k of atomic_write_json(path, data): 1 opens the temporary file, the
\* next ones write the text, the last one renames it over the target
atomic_write_json_step(f, path, data, k) ==
    LET tmpname == NamedTemporaryFile(path)
        text == json_dump(data)
    IN  IF k = 1 THEN OpenTemp(f, tmpname)
        ELSE IF k <= Len(text) + 1 THEN WriteTok(f, tmpname, text[k - 1])
        ELSE os_replace(f, tmpname, path)

\* the files after the first k steps of atomic_write_json(path, data)
RECURSIVE atomic_write_json_upto(_, _, _, _)
atomic_write_json_upto(f, path, data, k) ==
    IF k = 0 THEN f
    ELSE atomic_write_json_step(atomic_write_json_upto(f, path, data, k - 1),
                                path, data, k)

\* a temporary file left behind by a failed write has a name no later call
\* uses again: it is out of the program's reach
ForgetTemp(f, path) ==
    LET tmpname == NamedTemporaryFile(path)
    IN  IF tmpname = path THEN f ELSE [f EXCEPT ![tmpname] = NoFile]

\* faulty variant: the exception of json.load is not caught
load_json_safe_Raising(f, path) ==
    IF ~f[path].exists THEN [raised |-> FALSE, val |-> EmptyDict]
    ELSE json_load(f[path].text)
\* load_json_safe(path)
load_json_safe(f, path) ==
    IF ~f[path].exists THEN [raised |-> FALSE, val |-> EmptyDict]
    ELSE LET r == json_load(f[path].text)
         IN  IF r.raised THEN [raised |-> FALSE, val |-> EmptyDict] ELSE r

\* load_history()
load_history(f) == load_json_safe(f, HISTORY_FILE)

\* save_history(h) when atomic_write_json raises after failAt of its steps
\* (failAt = WriteSteps(h): it does not raise); the exception is logged
save_history(f, h, failAt) ==
    ForgetTemp(atomic_write_json_upto(f, HISTORY_FILE, h, failAt), HISTORY_FILE)

(***************************************************************************)
(* Model selection. A string is a sequence of characters; NoneStr is       *)
(* Python's None where a string is expected                                *)
(***************************************************************************)
NoneStr == <<None>>

\* truth value of an optional string: None and "" are false
Truthy(x) == x # NoneStr /\ x # <<>>

\* a or b
PyOr(a, b) == IF Truthy(a) THEN a ELSE b

UpperChars == <<"A", "B", "C", "D", "E", "F", "G", "H", "I", "J", "K", "L", "M",
                "N", "O", "P", "Q", "R", "S", "T", "U", "V", "W", "X", "Y", "Z">>
LowerChars == <<"a", "b", "c", "d", "e", "f", "g", "h", "i", "j", "k", "l", "m",
                "n", "o", "p", "q", "r", "s", "t", "u", "v", "w", "x", "y", "z">>

\* faulty variant: the name is compared as it is
Lower_Forgotten(str) == str
\* str.lower()
Lower(str) ==
    [i \in 1..Len(str) |->
        IF \E u \in 1..Len(UpperChars) : UpperChars[u] = str[i]
        THEN LowerChars[CHOOSE u \in 1..Len(UpperChars) : UpperChars[u] = str[i]]
        ELSE str[i]]

\* k in s, for strings
Contains(str, k) ==
    \E i \in 1..(Len(str) - Len(k) + 1) : SubSeq(str, i, i + Len(k) - 1) = k

\* the default of preferred_keywords: ("gemini", "flash", "2.0", "3.0")
preferred_keywords ==
    << <<"g", "e", "m", "i", "n", "i">>, <<"f", "l", "a", "s", "h">>,
       <<"2", ".", "0">>, <<"3", ".", "0">> >>

\* the methods the first pass accepts
AcceptedMethods == <<"generateContent", "chat", "sendMessage", "send_message">>

\* a model descriptor as list_models() yields it; a name or model attribute
\* that is missing reads as None, supported_generation_methods that is
\* missing or None reads as no methods
Descriptor(name, model, methods) == [name |-> name, model |-> model, methods |-> methods]

\* the entry choose_available_model keeps of a descriptor
Entry(m) ==
    [name |-> PyOr(PyOr(m.name, m.model), NoneStr),
     methods |-> m.methods]

\* the test of the first pass on an entry
PreferredMatch(entry) ==
    /\ Truthy(entry.name)
    /\ \E k \in 1..Len(preferred_keywords) :
           Contains(Lower(entry.name), preferred_keywords[k])
    /\ \E a \in 1..Len(AcceptedMethods) : AcceptedMethods[a] \in entry.methods

\* faulty variant: the fallback pass takes any accepted method
FallbackMatch_AnyAccepted(entry) ==
    /\ Truthy(entry.name)
    /\ \E a \in 1..Len(AcceptedMethods) : AcceptedMethods[a] \in entry.methods
\* the test of the fallback pass on an entry
FallbackMatch(entry) ==
    Truthy(entry.name) /\ "generateContent" \in entry.methods

\* for entry in available: if <test>: return name  (None when the loop ends)
RECURSIVE FirstPreferred(_)
FirstPreferred(available) ==
    IF available = <<>> THEN NoneStr
    ELSE IF PreferredMatch(Head(available)) THEN Head(available).name
    ELSE FirstPreferred(Tail(available))

RECURSIVE FirstFallback(_)
FirstFallback(available) ==
    IF available = <<>> THEN NoneStr
    ELSE IF FallbackMatch(Head(available)) THEN Head(available).name
    ELSE FirstFallback(Tail(available))

\* choose_available_model(models)
choose_available_model(ms) ==
    LET available == [i \in 1..Len(ms) |-> Entry(ms[i])]
        first == FirstPreferred(available)
    IN  IF first # NoneStr THEN first ELSE FirstFallback(available)

\* detect_model(), one step at a time
\* faulty variant: the exception of genai.list_models() ends the import
DetectModel_List_Aborting ==
    /\ startup = "list"
    /\ models' = IF listRaises THEN <<>> ELSE registry
    /\ startup' = IF listRaises THEN "fatal" ELSE "choose"
    /\ UNCHANGED <<fs, storeVars, botVars, registry, listRaises, FALLBACK_MODEL, selected, SELECTED_MODEL>>
\* models = genai.list_models(), or [] when it raises
DetectModel_List ==
    /\ startup = "list"
    /\ models' = IF listRaises THEN <<>> ELSE registry
    /\ startup' = "choose"
    /\ UNCHANGED <<fs, storeVars, botVars, registry, listRaises, FALLBACK_MODEL, selected, SELECTED_MODEL>>

\* selected = choose_available_model(models)
DetectModel_Choose ==
    /\ startup = "choose"
    /\ selected' = choose_available_model(models)
    /\ startup' = "decide"
    /\ UNCHANGED <<fs, storeVars, botVars, registry, listRaises, FALLBACK_MODEL, models, SELECTED_MODEL>>

\* faulty variant: without a selection the fallback is returned as it is,
\* set or not
DetectModel_Return_Unchecked ==
    /\ startup = "decide"
    /\ SELECTED_MODEL' = IF Truthy(selected) THEN selected ELSE FALLBACK_MODEL
    /\ startup' = "serving"
    /\ UNCHANGED <<fs, storeVars, botVars, registry, listRaises, FALLBACK_MODEL, models, selected>>
\* return selected, or FALLBACK_MODEL, or raise RuntimeError (the import fails)
DetectModel_Return ==
    /\ startup = "decide"
    /\ IF Truthy(selected)
       THEN SELECTED_MODEL' = selected /\ startup' = "serving"
       ELSE IF Truthy(FALLBACK_MODEL)
       THEN SELECTED_MODEL' = FALLBACK_MODEL /\ startup' = "serving"
       ELSE SELECTED_MODEL' = SELECTED_MODEL /\ startup' = "fatal"
    /\ UNCHANGED <<fs, storeVars, botVars, registry, listRaises, FALLBACK_MODEL, models, selected>>

\* the names and descriptors the registry is drawn from
NameGeminiPro == <<"G", "e", "m", "i", "n", "i", "-", "P", "r", "o">>
NameFlash == <<"x", "-", "f", "l", "a", "s", "h">>
NamePalm == <<"p", "a", "l", "m">>
NameBison == <<"b", "i", "s", "o", "n">>
NameV30 == <<"v", "3", ".", "0">>
NameFallback == <<"g", "e", "m", "i", "n", "i", "-", "2", ".", "0", "-", "f", "l", "a", "s", "h">>

SampleDescriptors ==
    { Descriptor(NameGeminiPro, NoneStr, {"generateContent"}),
      Descriptor(NameGeminiPro, NoneStr, {"send_message"}),
      Descriptor(NameFlash, NoneStr, {"chat"}),
      Descriptor(NameFlash, NoneStr, {"embedContent"}),
      Descriptor(NamePalm, NoneStr, {"generateContent"}),
      Descriptor(NameBison, NoneStr, {"generateContent", "countTokens"}),
      Descriptor(NamePalm, NoneStr, {"chat"}),
      Descriptor(NoneStr, NoneStr, {"generateContent"}),
      Descriptor(NoneStr, NameV30, {"sendMessage"}),
      Descriptor(<<>>, NoneStr, {"generateContent"}),
      Descriptor(NameBison, NoneStr, {}) }

MaxModels == 3

CandidateLists == UNION { [1..n -> SampleDescriptors] : n \in 0..MaxModels }

\* the selection has not started
SelectInit ==
    /\ registry \in CandidateLists
    /\ listRaises \in BOOLEAN
    /\ FALLBACK_MODEL \in {NoneStr, <<>>, NameFallback}
    /\ startup = "list"
    /\ models = <<>>
    /\ selected = NoneStr
    /\ SELECTED_MODEL = NoneStr

\* the import has completed with a model selected
SelectDone ==
    /\ registry = <<>>
    /\ listRaises = FALSE
    /\ FALLBACK_MODEL = NoneStr
    /\ startup = "serving"
    /\ models = <<>>
    /\ selected = NameFallback
    /\ SELECTED_MODEL = NameFallback

\* no update has arrived
BotIdle == tasks = <<>> /\ interleaved = FALSE

\* the store scenario is not running
StoreIdle ==
    /\ wpc = "idle" /\ wmode = "given" /\ wdata = <<>> /\ wstep = 0
    /\ wfailed = FALSE /\ wfirst = <<>> /\ loaded = <<>>

SelectNext == DetectModel_List \/ DetectModel_Choose \/ DetectModel_Return

\* the module is being imported: nothing else has run
SelectStart ==
    /\ SelectInit /\ StoreIdle /\ BotIdle
    /\ fs = [p \in Paths |-> NoFile]
    /\ fs0 = NoFile

SpecSelect == SelectStart /\ [][SelectNext]_vars

\* two characters that differ at most in case
SameLetter(a, b) ==
    a = b \/ \E u \in 1..Len(UpperChars) : {a, b} = {UpperChars[u], LowerChars[u]}

\* the name has keyword k in it, case ignored
ContainsNoCase(str, k) ==
    \E i \in 1..(Len(str) - Len(k) + 1) :
        \A j \in 1..Len(k) : SameLetter(str[i + j - 1], k[j])

\* the candidate's name: its name attribute, else its model attribute
NameOf(d) == IF Truthy(d.name) THEN d.name ELSE d.model

HasKeyword(d) ==
    /\ Truthy(NameOf(d))
    /\ \E k \in 1..Len(preferred_keywords) : ContainsNoCase(NameOf(d), preferred_keywords[k])

\* a candidate of the preferred pass, for a given set of acceptable methods
IsPreferred(d, acceptable) == HasKeyword(d) /\ d.methods \cap acceptable # {}

\* the first index of ms that satisfies P
IsFirst(ms, i, P(_)) == i \in 1..Len(ms) /\ P(ms[i]) /\ \A j \in 1..(i - 1) : ~P(ms[j])

ChoiceMade == startup \in {"decide", "serving", "fatal"}

Preferred3(d) == IsPreferred(d, {"generateContent", "chat", "sendMessage"})
Preferred4(d) == IsPreferred(d, {"generateContent", "chat", "sendMessage", "send_message"})
Generates(d) == "generateContent" \in d.methods
NamedGenerates(d) == Truthy(NameOf(d)) /\ "generateContent" \in d.methods

\* C9 as stated: when some candidate has a name containing a preferred keyword
\* (case ignored) and methods intersecting {generateContent, chat,
\* sendMessage}, choose_available_model returns the name of the first such
\* candidate.
C9_PreferredPass_Original ==
    ChoiceMade =>
        \A i \in 1..Len(models) :
            IsFirst(models, i, Preferred3) => selected = NameOf(models[i])

\* C9 amended: when some candidate has a name containing a preferred keyword
\* (case ignored) and methods intersecting {generateContent, chat,
\* sendMessage, send_message}, choose_available_model returns the name of the
\* first such candidate in input order, whatever comes before or after it.
C9_PreferredPass ==
    ChoiceMade =>
        \A i \in 1..Len(models) :
            IsFirst(models, i, Preferred4) => selected = NameOf(models[i])

\* the first preferred candidate, named in mixed case, stands between a
\* candidate that only the fallback pass would take and another preferred one
C9_Witness ==
    /\ ChoiceMade
    /\ Len(models) = 3
    /\ ~Preferred4(models[1]) /\ NamedGenerates(models[1])
    /\ Preferred4(models[2]) /\ models[2].name = NameGeminiPro
    /\ Preferred4(models[3]) /\ models[3].name = NameFlash
    /\ selected = NameGeminiPro

\* C10 as stated: when the preferred pass selects no candidate and some
\* candidate supports generateContent, choose_available_model returns the name
\* of the first candidate whose methods contain generateContent.
C10_FallbackPass_Original ==
    (ChoiceMade /\ \A j \in 1..Len(models) : ~Preferred4(models[j])) =>
        \A i \in 1..Len(models) :
            IsFirst(models, i, Generates) => selected = NameOf(models[i])

\* C10 amended: when the preferred pass selects no candidate and some
\* candidate with a non-empty name supports generateContent,
\* choose_available_model returns the name of the first candidate that has a
\* non-empty name and whose methods contain generateContent (a candidate
\* without a name is passed over), whether or not that name has a keyword.
C10_FallbackPass ==
    (ChoiceMade /\ \A j \in 1..Len(models) : ~Preferred4(models[j])) =>
        \A i \in 1..Len(models) :
            IsFirst(models, i, NamedGenerates) => selected = NameOf(models[i])

\* no preferred candidate; the fallback took the second candidate, after one
\* that supports only chat and a nameless one that supports generateContent
C10_Witness ==
    /\ ChoiceMade
    /\ Len(models) = 3
    /\ \A j \in 1..3 : ~Preferred4(models[j])
    /\ models[1].methods = {"chat"} /\ Truthy(models[1].name)
    /\ ~Truthy(NameOf(models[2])) /\ Generates(models[2])
    /\ NamedGenerates(models[3])
    /\ selected = models[3].name

(***************************************************************************)
(* The store on its own: save_history(m) followed by load_history(), the   *)
(* write taken one step at a time so that the process can be interrupted   *)
(* between any two steps                                                   *)
(***************************************************************************)
SampleDicts ==
    { EmptyDict,
      <<<<"42", <<>>>>>>,
      <<<<"42", OldHistory(2)>>>>,
      <<<<MY_ID, OldHistory(1)>>>>,
      <<<<"42", OldHistory(2)>>, <<MY_ID, OldHistory(3)>>>>,
      <<<<MY_ID, OldHistory(3)>>, <<"42", OldHistory(2)>>>> }

\* the target file before the save: absent, empty, not JSON, a truncated
\* document, or a complete document
StoreInitFiles ==
    { NoFile, File(<<>>), File(<<TokJunk>>),
      File(<<TokOpen, Tok("pair", "42", OldHistory(2))>>) }
    \cup { File(json_dump(d)) : d \in SampleDicts }

StoreInit ==
    /\ \E f0 \in StoreInitFiles :
        /\ fs = [p \in Paths |-> IF p = HISTORY_FILE THEN f0 ELSE NoFile]
        /\ fs0 = f0
    /\ wmode \in {"given", "reload"}
    /\ wdata \in IF wmode = "given" THEN SampleDicts ELSE {EmptyDict}
    /\ wpc = IF wmode = "given" THEN "saving" ELSE "start"
    /\ wstep = 0
    /\ wfailed = FALSE
    /\ wfirst = EmptyDict
    /\ loaded = EmptyDict
    /\ SelectDone
    /\ BotIdle

\* h = load_history(), then save_history(h) is called
LoadFirst ==
    /\ wpc = "start"
    /\ LET r == load_history(fs)
       IN  /\ ~r.raised
           /\ wfirst' = r.val
           /\ wdata' = r.val
    /\ wpc' = "saving"
    /\ UNCHANGED <<fs, wmode, wstep, wfailed, loaded, fs0, selectVars, botVars>>

\* the next step of atomic_write_json; after the last one save_history returns
WriteStep ==
    /\ wpc = "saving"
    /\ wstep < WriteSteps(wdata)
    /\ wstep' = wstep + 1
    /\ fs' = atomic_write_json_step(fs, HISTORY_FILE, wdata, wstep + 1)
    /\ wpc' = IF wstep + 1 = WriteSteps(wdata) THEN "saved" ELSE "saving"
    /\ UNCHANGED <<wmode, wdata, wfailed, wfirst, loaded, fs0, selectVars, botVars>>

\* the next step of atomic_write_json raises: save_history logs it and returns
WriteRaises ==
    /\ wpc = "saving"
    /\ wstep < WriteSteps(wdata)
    /\ wfailed' = TRUE
    /\ wpc' = "saved"
    /\ UNCHANGED <<fs, wmode, wdata, wstep, wfirst, loaded, fs0, selectVars, botVars>>

\* the process is killed between two steps of the write
Interrupt ==
    /\ wpc = "saving"
    /\ wpc' = "killed"
    /\ UNCHANGED <<fs, wmode, wdata, wstep, wfailed, wfirst, loaded, fs0, selectVars, botVars>>

\* the load_history() that follows the save
LoadAfter ==
    /\ wpc = "saved"
    /\ LET r == load_history(fs)
       IN  /\ ~r.raised
           /\ loaded' = r.val
    /\ wpc' = "done"
    /\ UNCHANGED <<fs, wmode, wdata, wstep, wfailed, wfirst, fs0, selectVars, botVars>>

StoreNext == LoadFirst \/ WriteStep \/ WriteRaises \/ Interrupt \/ LoadAfter

SpecStore == StoreInit /\ [][StoreNext]_vars

\* what a reader of memory.json finds is a whole document (or no file)
Complete(file) == ~file.exists \/ WellFormed(file.text)

\* C3: starting from a target that is absent or a complete document, at every
\* point of save_history, also when the process is killed between two steps,
\* memory.json is absent, the complete previous document or the complete new
\* document, never a partially written one.
C3_AtomicWrite ==
    Complete(fs0) =>
        /\ Complete(fs[HISTORY_FILE])
        /\ fs[HISTORY_FILE] \in {fs0, File(json_dump(wdata))}

\* the process was killed while the temporary file held half of the new
\* document, and the target still holds the complete previous document
C3_Witness ==
    /\ wpc = "killed"
    /\ wstep > 1 /\ wstep < WriteSteps(wdata) - 1
    /\ fs[TmpName].exists /\ ~WellFormed(fs[TmpName].text)
    /\ fs0.exists /\ WellFormed(fs0.text)
    /\ fs0 # File(json_dump(wdata))
    /\ fs[HISTORY_FILE] = fs0

Users == {MY_ID, "42"}

MaxUpdates == 2
MaxChunks == 1
OldTurns == 9

\* what the generation call can return: a reply whose text is empty, a reply
\* of white space only, or a reply that textwrap.wrap cuts into c chunks
Replies == {"empty", "blank"} \cup {"text"}
ReplyChunks(reply, c) ==
    IF reply = "blank" THEN 0 ELSE IF reply = "empty" THEN 1 ELSE c

\* the text of a part that is the empty string
EmptyText == 0

\* chat.history after chat.send_message(text) returned: the history the chat
\* was started with, the user's turn, the model's turn
chat_history(user_history, n, reply) ==
    user_history \o
        <<UserTurn(n), Turn("model", <<IF reply = "empty" THEN EmptyText ELSE n>>)>>

\* faulty variants: the whole history, and history[:HISTORY_LIMIT]
LastTurns_Unbounded(history) == history
LastTurns_First(history) ==
    IF Len(history) <= HISTORY_LIMIT THEN history ELSE SubSeq(history, 1, HISTORY_LIMIT)
\* history[-HISTORY_LIMIT:]
LastTurns(history) ==
    IF Len(history) <= HISTORY_LIMIT THEN history
    ELSE SubSeq(history, Len(history) - HISTORY_LIMIT + 1, Len(history))

\* {"role": content.role, "parts": [p.text for p in content.parts if p.text]}
Project(content) ==
    Turn(content.role, SelectSeq(content.parts, LAMBDA t : t # EmptyText))

\* new_history of handle_message
new_history(history) ==
    LET last == LastTurns(history) IN [i \in 1..Len(last) |-> Project(last[i])]

\* faulty variant: save_history lets the exception through
SaveResult_Propagating(f, h, failAt) ==
    [fs |-> save_history(f, h, failAt), raised |-> failAt < WriteSteps(h)]
\* save_history(h) as a handler calls it: the files afterwards, and whether
\* an exception leaves save_history
SaveResult(f, h, failAt) ==
    [fs |-> save_history(f, h, failAt), raised |-> FALSE]

\* faulty variant: only the generation call is inside the try block
Catches_GenerationOnly(failure) == failure = "generation"
\* the except clause of handle_message catches every Exception of its try block
Catches(failure) == TRUE

\* faulty variant: the user turn is saved although the call raised
handle_message_Save_Partial(f, histories, uid, n, reply, failAt) ==
    IF reply = "raise"
    THEN SaveResult(f, DictSet(histories, uid,
                     new_history(DictGet(histories, uid, <<>>) \o <<UserTurn(n)>>)),
                    failAt)
    ELSE SaveResult(f, DictSet(histories, uid,
                     new_history(chat_history(DictGet(histories, uid, <<>>), n, reply))),
                    failAt)
\* faulty variant: the store is loaded again right before it is written
handle_message_Save_Reloading(f, histories, uid, n, reply, failAt) ==
    IF reply = "raise"
    THEN [fs |-> f, raised |-> FALSE]
    ELSE SaveResult(f, DictSet(load_history(f).val, uid,
                     new_history(chat_history(DictGet(histories, uid, <<>>), n, reply))),
                    failAt)
\* the files after the part of handle_message that follows the generation
\* call: nothing is saved when the call raised
handle_message_Save(f, histories, uid, n, reply, failAt) ==
    IF reply = "raise"
    THEN [fs |-> f, raised |-> FALSE]
    ELSE SaveResult(f, DictSet(histories, uid,
                     new_history(chat_history(DictGet(histories, uid, <<>>), n, reply))),
                    failAt)

\* get_model(is_admin): the model is built with the system instruction for
\* the owner or for anyone else; when that raises it is built without one, and
\* when that raises too the exception leaves get_model
get_model(is_admin, firstRaises, secondRaises) ==
    [raised |-> firstRaises /\ secondRaises,
     model_name |-> SELECTED_MODEL,
     system_instruction |-> IF firstRaises THEN "none"
                            ELSE IF is_admin THEN "owner" ELSE "other"]

\* where a call of save_history(h) can fail: after any number of the steps
\* of atomic_write_json short of all of them (all of them: it does not fail)
FailPoints(h) == 0..WriteSteps(h)

\* what the state of memory.json was when a handler loaded it
Seen(f) ==
    IF ~f[HISTORY_FILE].exists THEN "absent"
    ELSE IF WellFormed(f[HISTORY_FILE].text) THEN "valid" ELSE "unparseable"

Task(uid, kind, n) ==
    [uid |-> uid, kind |-> kind, pc |-> "typing", n |-> n, histories |-> EmptyDict,
     reply |-> "none", left |-> 0, sent |-> <<>>, failed |-> "none",
     persistFailed |-> FALSE, saved |-> FALSE, saw |-> "notyet"]

\* the number of the next text message of user u
NextMessage(u) ==
    Len(DictGet(load_history([p \in Paths |-> fs0]).val, u, <<>>))
        + Cardinality({t \in 1..Len(tasks) : tasks[t].uid = u /\ tasks[t].kind = "text"}) + 1

InFlight(t) == tasks[t].kind = "text" /\ tasks[t].pc = "inflight"

\* the handler has returned ("done") or an exception has left it ("raised")
Finished(t) == tasks[t].pc \in {"done", "raised"}

\* the handler is past its last use of the store: it only has messages to send
PastStore(t) == tasks[t].pc \in {"sending", "answering", "done", "raised"}

\* The sends of a handler read and write nothing another handler uses, so how
\* they interleave with the steps of other handlers changes no result: a
\* handler that is past its last use of the store runs to its end before the
\* event loop resumes or starts another one.
LoopFree == \A t \in 1..Len(tasks) : ~PastStore(t)

\* A handler that awaits send_chat_action has read nothing and holds nothing:
\* resuming it later gives what the update arriving later gives. It is resumed
\* before the event loop starts or resumes another handler.
NoneWaiting == \A t \in 1..Len(tasks) : tasks[t].pc # "typing"

\* what is remembered of a handler once its coroutine is dropped: the update
\* it handled and what it completed: "text" or "empty" for the kind of reply
\* whose exchange handle_message stored and whose text it sent, "cleared" for
\* an entry that cmd_clear_history removed, "none" when it wrote nothing, the
\* write failed, the except branch was taken or the reply had no chunk to send
Gone(task) ==
    [Task(task.uid, task.kind, IF task.kind = "text" THEN task.n ELSE 0) EXCEPT
        !.pc = "gone",
        !.reply = IF ~task.saved \/ task.persistFailed \/ task.failed # "none"
                     \/ task.reply = "blank" THEN "none"
                  ELSE IF task.kind = "clear" THEN "cleared"
                  ELSE IF task.reply \in {"none", "raise"} THEN "none"
                  ELSE IF task.reply = "empty" THEN "empty" ELSE "text"]

\* the except branch: log, then await message.answer(<the fixed error message>)
Except(task, failure) ==
    IF Catches(failure)
    THEN [task EXCEPT !.pc = "answering", !.failed = failure, !.histories = EmptyDict,
                      !.sent = Append(task.sent, "error")]
    ELSE [task EXCEPT !.pc = "raised", !.failed = failure, !.histories = EmptyDict]

\* a text message arrives: handle_message starts and awaits send_chat_action
ReceiveText(u) ==
    /\ startup = "serving"
    /\ LoopFree /\ NoneWaiting
    /\ Len(tasks) < MaxUpdates
    /\ tasks' = Append(tasks, Task(u, "text", NextMessage(u)))
    /\ UNCHANGED <<fs, storeVars, selectVars, interleaved>>

\* faulty variant: the generation call is awaited on the event loop, so no
\* handler gets to its own call while one is in flight
HandleMessage_Load_Serialized(t) ==
    /\ t \in 1..Len(tasks)
    /\ LoopFree
    /\ tasks[t].kind = "text" /\ tasks[t].pc = "typing"
    /\ \A o \in 1..Len(tasks) : ~InFlight(o)
    /\ LET r == load_history(fs)
       IN  \E firstRaises, secondRaises, chatRaises \in BOOLEAN :
             tasks' = [tasks EXCEPT ![t] =
                 IF r.raised THEN Except([@ EXCEPT !.saw = Seen(fs)], "load")
                 ELSE IF get_model(@.uid = MY_ID, firstRaises, secondRaises).raised \/ chatRaises
                 THEN Except([@ EXCEPT !.saw = Seen(fs)], "setup")
                 ELSE [@ EXCEPT !.pc = "inflight", !.histories = r.val, !.saw = Seen(fs)]]
    /\ interleaved' = (interleaved \/ \E o \in 1..Len(tasks) :
                            InFlight(o) \/ (o < t /\ tasks[o].pc = "typing"))
    /\ UNCHANGED <<fs, storeVars, selectVars>>
\* send_chat_action returned or raised (ignored); the handler loads the store,
\* builds the model and the chat, and hands chat.send_message to a thread
HandleMessage_Load(t) ==
    /\ t \in 1..Len(tasks)
    /\ LoopFree
    /\ tasks[t].kind = "text" /\ tasks[t].pc = "typing"
    /\ LET r == load_history(fs)
       IN  \E firstRaises, secondRaises, chatRaises \in BOOLEAN :
             tasks' = [tasks EXCEPT ![t] =
                 IF r.raised THEN Except([@ EXCEPT !.saw = Seen(fs)], "load")
                 ELSE IF get_model(@.uid = MY_ID, firstRaises, secondRaises).raised \/ chatRaises
                 THEN Except([@ EXCEPT !.saw = Seen(fs)], "setup")
                 ELSE [@ EXCEPT !.pc = "inflight", !.histories = r.val, !.saw = Seen(fs)]]
    /\ interleaved' = (interleaved \/ \E o \in 1..Len(tasks) :
                            InFlight(o) \/ (o < t /\ tasks[o].pc = "typing"))
    /\ UNCHANGED <<fs, storeVars, selectVars>>

\* the generation call returned or raised; on a reply the handler recomputes
\* the window, saves the store, reads response.text and starts sending it
HandleMessage_Reply(t) ==
    /\ t \in 1..Len(tasks)
    /\ LoopFree /\ NoneWaiting
    /\ InFlight(t)
    /\ LET task == tasks[t]
           user_history == DictGet(task.histories, task.uid, <<>>)
       IN  \/ \* chat.send_message raised
              \E failAt \in FailPoints(task.histories) :
                LET w == handle_message_Save(fs, task.histories, task.uid, task.n, "raise", failAt)
                IN  /\ fs' = w.fs
                    /\ tasks' = [tasks EXCEPT ![t] =
                           Except([task EXCEPT !.reply = "raise"], "generation")]
           \/ \* it returned, and reading chat.history raised: nothing is saved
              /\ fs' = fs
              /\ tasks' = [tasks EXCEPT ![t] = Except(task, "window")]
           \/ \* it returned: the window is saved, then the reply is sent
              \E reply \in Replies, textRaises \in BOOLEAN :
                LET h == DictSet(task.histories, task.uid,
                                 new_history(chat_history(user_history, task.n, reply)))
                IN  \E failAt \in FailPoints(h), c \in 1..(IF reply = "text" THEN MaxChunks ELSE 1) :
                      LET w == handle_message_Save(fs, task.histories, task.uid, task.n,
                                                   reply, failAt)
                          chunks == ReplyChunks(reply, c)
                          after == [task EXCEPT !.reply = reply, !.histories = EmptyDict,
                                                !.saved = TRUE,
                                                !.persistFailed = (failAt < WriteSteps(h))]
                      IN  /\ fs' = w.fs
                          /\ tasks' = [tasks EXCEPT ![t] =
                                 IF w.raised THEN Except(after, "persist")
                                 ELSE IF textRaises THEN Except(after, "deliver")
                                 ELSE IF chunks = 0 THEN [after EXCEPT !.pc = "done"]
                                 ELSE [after EXCEPT !.pc = "sending", !.left = chunks - 1,
                                          !.sent = Append(task.sent,
                                              IF reply = "empty" THEN "placeholder"
                                              ELSE "reply")]]
    /\ UNCHANGED <<storeVars, selectVars, interleaved>>

\* bot.send_message for a chunk of the reply returned or raised
HandleMessage_Sent(t) ==
    /\ t \in 1..Len(tasks)
    /\ tasks[t].kind = "text" /\ tasks[t].pc = "sending"
    /\ \E raises \in BOOLEAN :
         tasks' = [tasks EXCEPT ![t] =
             IF raises THEN Except(@, "deliver")
             ELSE IF @.left = 0 THEN [@ EXCEPT !.pc = "done"]
             ELSE [@ EXCEPT !.left = @ - 1, !.sent = Append(@, "reply")]]
    /\ UNCHANGED <<fs, storeVars, selectVars, interleaved>>

\* message.answer of the except branch returned, or raised: then the
\* exception leaves handle_message
HandleMessage_Answered(t) ==
    /\ t \in 1..Len(tasks)
    /\ tasks[t].kind = "text" /\ tasks[t].pc = "answering"
    /\ \E raises \in BOOLEAN :
         tasks' = [tasks EXCEPT ![t].pc = IF raises THEN "raised" ELSE "done"]
    /\ UNCHANGED <<fs, storeVars, selectVars, interleaved>>

\* /clear_history arrives: cmd_clear_history runs up to its message.answer
ClearHistory(u) ==
    /\ startup = "serving"
    /\ LoopFree /\ NoneWaiting
    /\ Len(tasks) < MaxUpdates
    /\ LET r == load_history(fs)
           task == [Task(u, "clear", 0) EXCEPT !.saw = Seen(fs)]
       IN  IF r.raised
           THEN /\ tasks' = Append(tasks, [task EXCEPT !.pc = "raised", !.failed = "load"])
                /\ fs' = fs
           ELSE IF DictHas(r.val, u)
           THEN \E failAt \in FailPoints(DictPop(r.val, u)) :
                  LET w == SaveResult(fs, DictPop(r.val, u), failAt)
                  IN  /\ fs' = w.fs
                      /\ tasks' = Append(tasks,
                           IF w.raised
                           THEN [task EXCEPT !.pc = "raised", !.failed = "persist", !.saved = TRUE]
                           ELSE [task EXCEPT !.pc = "answering", !.saved = TRUE,
                                    !.persistFailed = (failAt < WriteSteps(DictPop(r.val, u))),
                                    !.sent = <<"cleared">>])
           ELSE /\ tasks' = Append(tasks, [task EXCEPT !.pc = "answering", !.sent = <<"nohistory">>])
                /\ fs' = fs
    /\ UNCHANGED <<storeVars, selectVars, interleaved>>

\* message.answer of cmd_clear_history returned or raised
ClearHistory_Answered(t) ==
    /\ t \in 1..Len(tasks)
    /\ tasks[t].kind = "clear" /\ tasks[t].pc = "answering"
    /\ \E raises \in BOOLEAN :
         tasks' = [tasks EXCEPT ![t].pc = IF raises THEN "raised" ELSE "done"]
    /\ UNCHANGED <<fs, storeVars, selectVars, interleaved>>

\* faulty variant: cmd_admin answers whoever asks
Admin_Unguarded(u) ==
    /\ startup = "serving"
    /\ LoopFree /\ NoneWaiting
    /\ Len(tasks) < MaxUpdates
    /\ LET r == load_history(fs)
           task == [Task(u, "admin", 0) EXCEPT !.saw = Seen(fs)]
       IN  tasks' = Append(tasks,
               IF r.raised THEN [task EXCEPT !.pc = "raised", !.failed = "load"]
               ELSE [task EXCEPT !.pc = "answering", !.n = Len(r.val),
                                 !.sent = <<"stats">>])
    /\ UNCHANGED <<fs, storeVars, selectVars, interleaved>>
\* /admin arrives: cmd_admin returns at once for anyone but the owner; for the
\* owner it loads the store and answers with total_users = len(histories)
\* (kept in n) and SELECTED_MODEL
Admin(u) ==
    /\ startup = "serving"
    /\ LoopFree /\ NoneWaiting
    /\ Len(tasks) < MaxUpdates
    /\ LET r == load_history(fs)
           task == [Task(u, "admin", 0) EXCEPT !.saw = Seen(fs)]
       IN  tasks' = Append(tasks,
               IF u # MY_ID THEN [Task(u, "admin", 0) EXCEPT !.pc = "done"]
               ELSE IF r.raised THEN [task EXCEPT !.pc = "raised", !.failed = "load"]
               ELSE [task EXCEPT !.pc = "answering", !.n = Len(r.val),
                                 !.sent = <<"stats">>])
    /\ UNCHANGED <<fs, storeVars, selectVars, interleaved>>

\* message.answer of cmd_admin returned or raised
Admin_Answered(t) ==
    /\ t \in 1..Len(tasks)
    /\ tasks[t].kind = "admin" /\ tasks[t].pc = "answering"
    /\ \E raises \in BOOLEAN :
         tasks' = [tasks EXCEPT ![t].pc = IF raises THEN "raised" ELSE "done"]
    /\ UNCHANGED <<fs, storeVars, selectVars, interleaved>>

\* the dispatcher drops the coroutine of a handler that ended
Drop(t) ==
    /\ t \in 1..Len(tasks)
    /\ Finished(t)
    /\ tasks' = [tasks EXCEPT ![t] = Gone(@)]
    /\ UNCHANGED <<fs, storeVars, selectVars, interleaved>>

\* memory.json when the bot starts
BotInitFiles ==
    { NoFile, File(<<TokJunk>>),
      File(json_dump(<<<<MY_ID, OldHistory(2)>>, <<"42", OldHistory(OldTurns)>>>>)) }

Init ==
    /\ \E f0 \in BotInitFiles :
        /\ fs = [p \in Paths |-> IF p = HISTORY_FILE THEN f0 ELSE NoFile]
        /\ fs0 = f0
    /\ StoreIdle
    /\ SelectDone
    /\ BotIdle

Next ==
    \/ \E u \in Users : ReceiveText(u)
    \/ \E u \in Users : ClearHistory(u)
    \/ \E u \in Users : Admin(u)
    \/ \E t \in 1..MaxUpdates : HandleMessage_Load(t)
    \/ \E t \in 1..MaxUpdates : HandleMessage_Reply(t)
    \/ \E t \in 1..MaxUpdates : HandleMessage_Sent(t)
    \/ \E t \in 1..MaxUpdates : HandleMessage_Answered(t)
    \/ \E t \in 1..MaxUpdates : ClearHistory_Answered(t)
    \/ \E t \in 1..MaxUpdates : Admin_Answered(t)
    \/ \E t \in 1..MaxUpdates : Drop(t)

Spec == Init /\ [][Next]_vars

(***************************************************************************)
(* Properties of the bot                                                   *)
(***************************************************************************)
\* the mapping a reader of memory.json gets now
Stored == load_history(fs).val

\* the history user u had in memory.json when the bot started
InitialHistory(u) == DictGet(load_history([p \in Paths |-> fs0]).val, u, <<>>)

IsText(t) == tasks[t].kind = "text"

\* C1: after any sequence of handle_message and /clear_history operations, in
\* any interleaving, every user's entry in the persisted store holds at most
\* HISTORY_LIMIT turns (the store started with at most HISTORY_LIMIT per user).
C1_WindowBound ==
    \A u \in DictKeys(Stored) : Len(DictGet(Stored, u, <<>>)) <= HISTORY_LIMIT

\* a handler stored an exchange on top of a history that left no room for it:
\* the entry is full and ends with the new exchange
C1_Witness ==
    \E t \in 1..Len(tasks) :
        /\ IsText(t) /\ tasks[t].pc = "gone" /\ tasks[t].reply = "text"
        /\ Len(InitialHistory(tasks[t].uid)) + 2 > HISTORY_LIMIT
        /\ Len(DictGet(Stored, tasks[t].uid, <<>>)) = HISTORY_LIMIT
        /\ DictGet(Stored, tasks[t].uid, <<>>)[HISTORY_LIMIT] = ModelTurn(tasks[t].n)

\* the turns of the exchanges that the handlers 1..k stored, in order
RECURSIVE Exchanges(_)
Exchanges(k) ==
    IF k = 0 THEN <<>>
    ELSE Exchanges(k - 1) \o
         (IF tasks[k].pc = "gone" /\ tasks[k].reply # "none"
          THEN <<UserTurn(tasks[k].n),
                 Turn("model", IF tasks[k].reply = "empty" THEN <<>> ELSE <<tasks[k].n>>)>>
          ELSE <<>>)

\* s is the last min(HISTORY_LIMIT, Len(full)) turns of full, in order
IsWindowOf(s, full) ==
    /\ Len(s) = (IF Len(full) < HISTORY_LIMIT THEN Len(full) ELSE HISTORY_LIMIT)
    /\ \A i \in 1..Len(s) : s[i] = full[Len(full) - Len(s) + i]

\* all updates so far are text messages of user u, handled one after another,
\* each one answered by the model and saved
OneAfterAnother(u) ==
    /\ ~interleaved
    /\ \A t \in 1..Len(tasks) :
        /\ IsText(t) /\ tasks[t].uid = u
        /\ tasks[t].pc \in {"typing", "inflight", "gone"}
        /\ tasks[t].pc = "gone" => tasks[t].reply # "none"

\* C2: after successful handle_message calls for one user handled one after
\* another, the stored history of that user is exactly the last
\* min(HISTORY_LIMIT, n) turns of the user's full exchange of n turns (the
\* turns stored before, then each user turn followed by its model turn), in
\* order; an empty prior history and one message give exactly the user turn
\* followed by the model turn.
C2_WindowContent ==
    \A u \in Users :
        OneAfterAnother(u) =>
            /\ IsWindowOf(DictGet(Stored, u, <<>>), InitialHistory(u) \o Exchanges(Len(tasks)))
            /\ (InitialHistory(u) = <<>> /\ Len(tasks) = 1 /\ tasks[1].pc = "gone") =>
                   /\ Len(DictGet(Stored, u, <<>>)) = 2
                   /\ DictGet(Stored, u, <<>>)[1] = UserTurn(1)
                   /\ DictGet(Stored, u, <<>>)[2].role = "model"

\* two messages of user "42" were handled one after the other on top of a
\* stored history: the oldest turns were dropped, the newest are the last ones
C2_Witness ==
    /\ OneAfterAnother("42")
    /\ Len(tasks) = 2 /\ tasks[1].pc = "gone" /\ tasks[2].pc = "gone"
    /\ Len(InitialHistory("42")) + 4 > HISTORY_LIMIT
    /\ Len(InitialHistory("42")) < HISTORY_LIMIT
    /\ Len(DictGet(Stored, "42", <<>>)) = HISTORY_LIMIT
    /\ DictGet(Stored, "42", <<>>)[HISTORY_LIMIT - 3] = UserTurn(tasks[1].n)
    /\ DictGet(Stored, "42", <<>>)[HISTORY_LIMIT] = ModelTurn(tasks[2].n)

\* the handler went through its except branch or ended
AfterFailure(t) == tasks[t].pc \in {"sending", "answering", "done", "raised"}

Stepped(t) == t > Len(tasks) \/ tasks[t] # tasks'[t]

\* C5: when the generation call, or a step before it, fails while a message
\* is handled, the save does not run for that request, the steps of the
\* request leave the persisted store as it was, and the user is sent the fixed
\* error message.
C5_NoPartialCommit ==
    [][\A t \in 1..Len(tasks') :
          (/\ tasks'[t].kind = "text"
           /\ tasks'[t].failed \in {"load", "setup", "generation"}
           /\ tasks'[t].pc # "gone"
           /\ Stepped(t)) =>
              /\ fs' = fs
              /\ ~tasks'[t].saved
              /\ \E i \in 1..Len(tasks'[t].sent) : tasks'[t].sent[i] = "error"]_vars

\* a generation call failed: the error message is on its way and memory.json
\* still holds the document the bot started with
C5_Witness ==
    \E t \in 1..Len(tasks) :
        /\ IsText(t) /\ tasks[t].failed = "generation" /\ tasks[t].pc = "answering"
        /\ tasks[t].sent = <<"error">>
        /\ fs0.exists /\ WellFormed(fs0.text)
        /\ fs[HISTORY_FILE] = fs0

C8_LoadNeverFails ==
    /\ ~load_history(fs).raised
    /\ Seen(fs) # "valid" => load_history(fs).val = EmptyDict
    /\ \A t \in 1..Len(tasks) :
        /\ tasks[t].failed # "load"
        /\ (tasks[t].saw \in {"absent", "unparseable"} /\ InFlight(t)) =>
               tasks[t].histories = EmptyDict
        /\ (tasks[t].saw \in {"absent", "unparseable"} /\ tasks[t].failed = "none") =>
               \A i \in 1..Len(tasks[t].sent) : tasks[t].sent[i] # "error"
        /\ (tasks[t].saw \in {"absent", "unparseable"} /\ tasks[t].kind = "clear") =>
               tasks[t].sent = <<"nohistory">>

\* memory.json could not be parsed when the handler loaded it, and the user
\* got the model's reply
C8_Witness ==
    \E t \in 1..Len(tasks) :
        /\ IsText(t) /\ tasks[t].saw = "unparseable" /\ tasks[t].pc = "done"
        /\ tasks[t].failed = "none" /\ tasks[t].sent = <<"reply">>
        /\ Seen(fs) = "valid"

(***************************************************************************)
(* Properties of the startup                                               *)
(***************************************************************************)
\* neither pass of choose_available_model has a candidate to take
NoCandidate ==
    \A i \in 1..Len(models) : ~Preferred4(models[i]) /\ ~NamedGenerates(models[i])

\* detect_model has returned or raised
Decided == startup \in {"serving", "fatal"}

\* no handler can start
NotServing ==
    /\ tasks = <<>>
    /\ \A u \in Users :
        ~ENABLED ReceiveText(u) /\ ~ENABLED ClearHistory(u) /\ ~ENABLED Admin(u)

\* C11: when no candidate is selected (empty list, or neither pass matches),
\* the selected model is exactly the fallback string if one is configured
\* (set and not empty), and otherwise startup fails and no update is ever
\* handled; whenever updates are handled, the selected model is a non-empty
\* string, the one detect_model returned.
C11_StartupOutcome ==
    /\ (Decided /\ NoCandidate) =>
           IF Truthy(FALLBACK_MODEL)
           THEN startup = "serving" /\ SELECTED_MODEL = FALLBACK_MODEL
           ELSE startup = "fatal"
    /\ startup # "serving" => NotServing
    /\ startup = "serving" =>
           /\ Truthy(SELECTED_MODEL)
           /\ SELECTED_MODEL = (IF Truthy(selected) THEN selected ELSE FALLBACK_MODEL)
           /\ \A a, f, g \in BOOLEAN : get_model(a, f, g).model_name = SELECTED_MODEL

\* the registry listed models, none of them usable, and the bot serves with
\* the configured fallback
C11_Witness ==
    /\ startup = "serving"
    /\ ~listRaises /\ Len(models) = 2
    /\ NoCandidate
    /\ SELECTED_MODEL = NameFallback
    /\ \A u \in Users : ENABLED ReceiveText(u)

\* C19: when genai.list_models() fails at startup, detect_model does not end
\* with that failure: it goes on as for an empty candidate list, returns the
\* configured fallback if there is one and fails with the no-model error
\* otherwise.
C19_RegistryFailure ==
    listRaises =>
        /\ startup # "list" => models = <<>>
        /\ ChoiceMade => selected = choose_available_model(<<>>)
        /\ startup = "fatal" => (~Truthy(FALLBACK_MODEL) /\ selected = NoneStr)
        /\ Decided =>
               IF Truthy(FALLBACK_MODEL)
               THEN startup = "serving" /\ SELECTED_MODEL = FALLBACK_MODEL
               ELSE startup = "fatal" /\ SELECTED_MODEL = NoneStr

\* the registry would have listed a preferred model, the listing failed, and
\* the bot serves with the configured fallback
C19_Witness ==
    /\ listRaises
    /\ \E i \in 1..Len(registry) : Preferred4(registry[i])
    /\ startup = "serving"
    /\ SELECTED_MODEL = NameFallback /\ SELECTED_MODEL = FALLBACK_MODEL

(***************************************************************************)
(* Properties of the commands                                              *)
(***************************************************************************)
\* C13: /admin from a user who is not the owner sends no message to anyone,
\* makes no generation call and does not read or write memory.json: the
\* handler returns at once, and its steps change no file and no other handler.
C13_AdminNonOwner ==
    [][\A t \in 1..Len(tasks') :
          (tasks'[t].kind = "admin" /\ tasks'[t].uid # MY_ID) =>
              /\ tasks'[t].sent = <<>>
              /\ tasks'[t].pc \in {"done", "gone"}
              /\ tasks'[t].reply = "none" /\ ~tasks'[t].saved
              /\ tasks'[t].saw = "notyet"
              /\ Stepped(t) =>
                     /\ fs' = fs
                     /\ \A o \in 1..Len(tasks) : o # t => tasks'[o] = tasks[o]]_vars

\* user 42 sent /admin while a generation call was in flight: the handler
\* returned without a message and memory.json is the document the bot
\* started with
C13_Witness ==
    \E t, o \in 1..Len(tasks) :
        /\ tasks[t].kind = "admin" /\ tasks[t].uid = "42" /\ tasks[t].pc = "done"
        /\ tasks[t].sent = <<>>
        /\ InFlight(o)
        /\ fs0.exists /\ WellFormed(fs0.text) /\ fs[HISTORY_FILE] = fs0

\* the step is cmd_clear_history for a new update
Clears == Len(tasks') = Len(tasks) + 1 /\ tasks'[Len(tasks')].kind = "clear"

\* the mapping a reader of memory.json gets after the step
StoredNext == load_history(fs').val

\* the entries of the users other than u are as they were
OthersKept(u) ==
    \A v \in (DictKeys(Stored) \cup DictKeys(StoredNext)) \ {u} :
        /\ DictHas(Stored, v) /\ DictHas(StoredNext, v)
        /\ DictGet(Stored, v, <<>>) = DictGet(StoredNext, v, <<>>)

Turns(history) == {history[i] : i \in 1..Len(history)}

\* handler t stored its exchange, sent its reply and ended
Completed(t) == IsText(t) /\ tasks[t].pc = "gone" /\ tasks[t].reply # "none"

\* handler b writes memory.json in this step, and the write succeeds
Saves(b) == InFlight(b) /\ tasks'[b].saved /\ ~tasks'[b].persistFailed

\* C14: lost update between different users: whenever handle_message for user
\* B loaded the store before a handle_message for another user A saved its
\* exchange (B's copy does not have it), and B saves after A has completed,
\* B's write of the whole document puts A's entry back to what B loaded: the
\* persisted store no longer contains A's exchange. Such an interleaving, with
\* both generation calls succeeding, exists.
C14_LostUpdate ==
    [][\A a, b \in 1..Len(tasks) :
          (/\ Completed(a) /\ IsText(b) /\ tasks[a].uid # tasks[b].uid
           /\ Saves(b)
           /\ UserTurn(tasks[a].n) \notin Turns(DictGet(tasks[b].histories, tasks[a].uid, <<>>))) =>
              /\ UserTurn(tasks[a].n) \notin Turns(DictGet(StoredNext, tasks[a].uid, <<>>))
              /\ DictGet(StoredNext, tasks[a].uid, <<>>) =
                     DictGet(tasks[b].histories, tasks[a].uid, <<>>)]_vars

\* two users' messages overlapped, both were answered by the model, both
\* handlers have completed, and memory.json holds the exchange of the second
\* writer only: the first writer's entry is as it was when the bot started
C14_Witness ==
    \E a, b \in 1..Len(tasks) :
        /\ Completed(a) /\ Completed(b) /\ tasks[a].uid # tasks[b].uid
        /\ interleaved
        /\ UserTurn(tasks[b].n) \in Turns(DictGet(Stored, tasks[b].uid, <<>>))
        /\ UserTurn(tasks[a].n) \notin Turns(DictGet(Stored, tasks[a].uid, <<>>))
        /\ DictGet(Stored, tasks[a].uid, <<>>) = InitialHistory(tasks[a].uid)

\* the turns of the exchange handler t stored
ExchangeOf(t) ==
    {UserTurn(tasks[t].n),
     Turn("model", IF tasks[t].reply = "empty" THEN <<>> ELSE <<tasks[t].n>>)}

\* every update so far is a text message of user u whose handler has completed
OnlyCompletedTexts(u) ==
    \A t \in 1..Len(tasks) : Completed(t) /\ tasks[t].uid = u

\* C15: when one user sends two messages and both are answered with a model
\* reply, then after both handlers have completed the user's stored history
\* contains both exchanges (all their turns, the total being within the
\* window of HISTORY_LIMIT turns), however the two handlers overlapped.
C15_SameUserOverlap ==
    \A u \in Users :
        (/\ Len(tasks) >= 2 /\ OnlyCompletedTexts(u)
         /\ Len(InitialHistory(u)) + 2 * Len(tasks) <= HISTORY_LIMIT) =>
            \A t \in 1..Len(tasks) : ExchangeOf(t) \subseteq Turns(DictGet(Stored, u, <<>>))

\* /clear_history of user u removed u's entry and its handler has ended
ClearCompleted(u) ==
    \E c \in 1..Len(tasks) :
        /\ tasks[c].kind = "clear" /\ tasks[c].uid = u
        /\ tasks[c].pc = "gone" /\ tasks[c].reply = "cleared"

\* C16: once a user's /clear_history has completed, no turn that was stored
\* for that user before the clear (here: the turns the bot started with) is in
\* the persisted store again, also when a handle_message for that user (here:
\* the only user with messages) loaded the store before the clear and saves
\* after it.
C16_ClearNotUndone ==
    \A u \in Users :
        (ClearCompleted(u) /\ \A t \in 1..Len(tasks) : IsText(t) => tasks[t].uid = u) =>
            Turns(InitialHistory(u)) \cap Turns(DictGet(Stored, u, <<>>)) = {}

\* C17: a generation call in flight holds up nothing: the handler of a
\* message that arrived goes on to its own generation call, every generation
\* call in flight can return and have its handler resumed, and new text
\* messages and commands are taken, so that several generation calls are in
\* flight at once and an event is handled from start to finish meanwhile.
C17_NotSerialized ==
    (LoopFree /\ \E o \in 1..Len(tasks) : InFlight(o)) =>
        /\ \A t \in 1..Len(tasks) :
            (IsText(t) /\ tasks[t].pc = "typing") => ENABLED HandleMessage_Load(t)
        /\ NoneWaiting =>
            /\ \A t \in 1..Len(tasks) : InFlight(t) => ENABLED HandleMessage_Reply(t)
            /\ Len(tasks) < MaxUpdates =>
                   \A u \in Users :
                       ENABLED ReceiveText(u) /\ ENABLED ClearHistory(u) /\ ENABLED Admin(u)

\* the generation call of the first message is still in flight, and the
\* message of another user that arrived after it has been answered by the
\* model and its handler has ended
C17_Witness ==
    \E o, t \in 1..Len(tasks) :
        /\ o < t
        /\ InFlight(o)
        /\ Completed(t) /\ tasks[t].uid # tasks[o].uid
        /\ UserTurn(tasks[t].n) \in Turns(DictGet(Stored, tasks[t].uid, <<>>))

\* C18: every text message is answered: when handle_message ends it has sent
\* the user at least one message (the reply, the placeholder or the fixed
\* error message), whatever the reply text is and whatever failed.
C18_AlwaysAnswered ==
    \A t \in 1..Len(tasks) :
        (IsText(t) /\ Finished(t)) => tasks[t].sent # <<>>

====
